---- MODULE Spec2Model ----
(***************************************************************************)
(* A model of the jupyter-learning-system package: the CurriculumManager   *)
(* (curriculum/curriculum_manager.py), the ProgressTracker                 *)
(* (progress/tracker.py) and the NotebookGenerator                         *)
(* (generators/notebook_generator.py).  The three objects share no state,  *)
(* so each has a specification of its own over the same variables:         *)
(* RegistrySpec, LedgerSpec and DocSpec.                                   *)
(*                                                                         *)
(* Every method is one action.  `ret` holds what the last call returned    *)
(* or raised.                                                              *)
(***************************************************************************)
EXTENDS Integers, Sequences, FiniteSets, TLC

VARIABLES
    modules,        \* CurriculumManager.modules: module id -> Module
    lessons,        \* CurriculumManager.lessons: lesson id -> Lesson
    lesson_graph,   \* CurriculumManager.lesson_graph: lesson id -> prerequisites
    lesson_progress,\* ProgressTracker.lesson_progress: lesson id -> LessonProgress
    total_points,   \* ProgressTracker.total_points
    badges_earned,  \* ProgressTracker.badges_earned
    cells,          \* NotebookGenerator.cells
    ret             \* the last call's outcome

vars == <<modules, lessons, lesson_graph, lesson_progress, total_points,
          badges_earned, cells, ret>>

registry == <<modules, lessons, lesson_graph>>
ledger == <<lesson_progress, total_points, badges_earned>>

\* Python's None, where the other values are strings.
None == "None"
\* An Optional[int]: None is Nothing, the integer v is Some(v).
Nothing == << >>
Some(v) == <<v>>

\* A dict with no keys.
EmptyDict == [k \in {} |-> None]

\* d[k] = v on a dict.
Put(d, k, v) == [x \in DOMAIN d \cup {k} |-> IF x = k THEN v ELSE d[x]]

\* What a call that returns nothing leaves in ret, and what a raise leaves.
Returned == [kind |-> "returned"]
Raised(e) == [kind |-> "raised", error |-> e]

-----------------------------------------------------------------------------
(* Bounds of the model.                                                    *)

\* The sum of the lengths of the modules' lesson lists.
MaxMembers == 3
\* Stands for the interpreter's recursion limit (frames of traverse).
RecursionLimit == 8
\* The most cells a notebook holds.
MaxCells == 3
\* The most minutes update_time_spent adds up on one lesson.
MaxMinutes == 18
\* The most points add_points adds up.
MaxPoints == 150

-----------------------------------------------------------------------------
(* CurriculumManager                                                       *)

ModuleIds == {"m1", "m2"}
LessonIds == {"A", "B", "C"}

\* A Lesson: the fields the registry's methods read (id, prerequisites).
Lesson(id, prerequisites) == [id |-> id, prerequisites |-> prerequisites]
\* The lessons add_lesson is called with: a diamond (A, B on A, C on A and B),
\* a cycle (A on B, B on A) and a lesson that requires itself.  A prerequisite
\* is an id of no lesson for as long as that lesson has not been added.
Lessons ==
    {Lesson("A", << >>), Lesson("A", <<"B">>), Lesson("A", <<"A">>),
     Lesson("B", <<"A">>),
     Lesson("C", <<"A", "B">>)}

\* A Module, new: no lessons.
Module(id) == [id |-> id, lessons |-> << >>]

RECURSIVE SumLen(_, _)
SumLen(ms, ids) ==
    IF ids = {} THEN 0
    ELSE LET m == CHOOSE x \in ids : TRUE
         IN Len(ms[m].lessons) + SumLen(ms, ids \ {m})

Members == SumLen(modules, DOMAIN modules)

\* __init__
RegistryInit ==
    /\ modules = EmptyDict
    /\ lessons = EmptyDict
    /\ lesson_graph = EmptyDict

\* create_module(module_id, title, description)
create_module(module_id) ==
    /\ modules' = Put(modules, module_id, Module(module_id))
    /\ ret' = [kind |-> "module", value |-> Module(module_id)]
    /\ UNCHANGED <<lessons, lesson_graph, ledger, cells>>

\* add_lesson with the lesson indexed before the module is looked up.
add_lesson_index_first(module_id, lesson) ==
    /\ lessons' = Put(lessons, lesson.id, lesson)
    /\ lesson_graph' =
           IF lesson.id \notin DOMAIN lesson_graph
           THEN Put(lesson_graph, lesson.id, lesson.prerequisites)
           ELSE lesson_graph
    /\ IF module_id \notin DOMAIN modules
       THEN /\ ret' = Raised("ValueError")
            /\ UNCHANGED modules
       ELSE /\ Members < MaxMembers
            /\ modules' = [modules EXCEPT ![module_id].lessons = Append(@, lesson)]
            /\ ret' = Returned
    /\ UNCHANGED <<ledger, cells>>

\* add_lesson that tracks the dependencies of a lesson only when it declares
\* some.
add_lesson_track_declared(module_id, lesson) ==
    /\ IF module_id \notin DOMAIN modules
       THEN /\ ret' = Raised("ValueError")
            /\ UNCHANGED registry
       ELSE /\ Members < MaxMembers
            /\ modules' = [modules EXCEPT ![module_id].lessons = Append(@, lesson)]
            /\ lessons' = Put(lessons, lesson.id, lesson)
            /\ lesson_graph' =
                   IF lesson.id \notin DOMAIN lesson_graph
                      /\ lesson.prerequisites # << >>
                   THEN Put(lesson_graph, lesson.id, lesson.prerequisites)
                   ELSE lesson_graph
            /\ ret' = Returned
    /\ UNCHANGED <<ledger, cells>>

\* add_lesson without `if lesson.id not in self.lesson_graph`.
add_lesson_track_latest(module_id, lesson) ==
    /\ IF module_id \notin DOMAIN modules
       THEN /\ ret' = Raised("ValueError")
            /\ UNCHANGED registry
       ELSE /\ Members < MaxMembers
            /\ modules' = [modules EXCEPT ![module_id].lessons = Append(@, lesson)]
            /\ lessons' = Put(lessons, lesson.id, lesson)
            /\ lesson_graph' = Put(lesson_graph, lesson.id, lesson.prerequisites)
            /\ ret' = Returned
    /\ UNCHANGED <<ledger, cells>>

\* add_lesson(module_id, lesson)
add_lesson(module_id, lesson) ==
    /\ IF module_id \notin DOMAIN modules
       THEN /\ ret' = Raised("ValueError")
            /\ UNCHANGED registry
       ELSE /\ Members < MaxMembers
            /\ modules' = [modules EXCEPT ![module_id].lessons = Append(@, lesson)]
            /\ lessons' = Put(lessons, lesson.id, lesson)
            /\ lesson_graph' =
                   IF lesson.id \notin DOMAIN lesson_graph
                   THEN Put(lesson_graph, lesson.id, lesson.prerequisites)
                   ELSE lesson_graph
            /\ ret' = Returned
    /\ UNCHANGED <<ledger, cells>>

\* `lesson_id in visited` (line 96)
AlreadyVisitedNever(lesson_id, st) == FALSE
AlreadyVisited(lesson_id, st) == lesson_id \in st.visited

RECURSIVE traverse(_, _, _, _)
RECURSIVE visit_prerequisites(_, _, _, _)

\* `for prereq in lesson.prerequisites: traverse(prereq)`, in declared order.
\* A raise ends the loop.
visit_prerequisites(L, prerequisites, st, depth) ==
    IF prerequisites = << >> \/ st.raised
    THEN st
    ELSE visit_prerequisites(L, Tail(prerequisites),
                             traverse(L, Head(prerequisites), st, depth), depth)

\* traverse with path.append before the prerequisites are visited (pre-order).
traverse_preorder(L, lesson_id, st, depth) ==
    IF st.raised THEN st
    ELSE IF depth > RecursionLimit THEN [st EXCEPT !.raised = TRUE]
    ELSE IF AlreadyVisited(lesson_id, st) THEN st
    ELSE LET marked == [st EXCEPT !.visited = @ \cup {lesson_id},
                                  !.path = Append(@, lesson_id)]
         IN IF lesson_id \in DOMAIN L
            THEN visit_prerequisites(L, L[lesson_id].prerequisites, marked, depth + 1)
            ELSE marked

\* traverse with visited.add after the prerequisites are visited.
traverse_mark_late(L, lesson_id, st, depth) ==
    IF st.raised THEN st
    ELSE IF depth > RecursionLimit THEN [st EXCEPT !.raised = TRUE]
    ELSE IF AlreadyVisited(lesson_id, st) THEN st
    ELSE LET after == IF lesson_id \in DOMAIN L
                      THEN visit_prerequisites(L, L[lesson_id].prerequisites,
                                               st, depth + 1)
                      ELSE st
         IN IF after.raised THEN after
            ELSE [after EXCEPT !.visited = @ \cup {lesson_id},
                               !.path = Append(@, lesson_id)]

\* The nested function traverse(lesson_id) of get_learning_path; st is the
\* closure's visited and path, depth the number of traverse frames on the
\* stack.  A frame beyond the recursion limit raises RecursionError, which
\* unwinds every frame.
traverse(L, lesson_id, st, depth) ==
    IF st.raised THEN st
    ELSE IF depth > RecursionLimit THEN [st EXCEPT !.raised = TRUE]
    ELSE IF AlreadyVisited(lesson_id, st) THEN st
    ELSE LET marked == [st EXCEPT !.visited = @ \cup {lesson_id}]
             after == IF lesson_id \in DOMAIN L
                      THEN visit_prerequisites(L, L[lesson_id].prerequisites,
                                               marked, depth + 1)
                      ELSE marked
         IN IF after.raised THEN after
            ELSE [after EXCEPT !.path = Append(@, lesson_id)]

\* get_learning_path(start_lesson_id), as a function of the lesson index.
learning_path(L, start_lesson_id) ==
    traverse(L, start_lesson_id,
             [visited |-> {}, path |-> << >>, raised |-> FALSE], 1)

\* get_learning_path(start_lesson_id)
get_learning_path(start_lesson_id) ==
    /\ LET out == learning_path(lessons, start_lesson_id)
       IN ret' = IF out.raised
                 THEN Raised("RecursionError")
                 ELSE [kind |-> "path", start |-> start_lesson_id,
                       path |-> out.path]
    /\ UNCHANGED <<registry, ledger, cells>>

\* get_curriculum_overview()
get_curriculum_overview ==
    /\ ret' = [kind |-> "overview",
               total_modules |-> Cardinality(DOMAIN modules),
               total_lessons |-> Cardinality(DOMAIN lessons),
               modules |-> [m \in DOMAIN modules |->
                               [lesson_count |-> Len(modules[m].lessons)]]]
    /\ UNCHANGED <<registry, ledger, cells>>

-----------------------------------------------------------------------------
(* ProgressTracker                                                         *)

ProgressIds == {"u1", "u2"}
LessonTitles == {"Intro"}
\* datetime.now().isoformat()
Times == {"2024-01-01T10:00:00"}
Percentages == {50, 100, 150}
QuizScores == {Nothing, Some(0), Some(95)}
MinuteAmounts == {18}
ChallengeIds == {"challenge_1"}
PointAmounts == {50, 100}
BadgeNames == {"first_lesson", "perfect_quiz"}

\* LessonProgress(lesson_id=..., lesson_title=...): the dataclass's defaults.
LessonProgress(lesson_id, lesson_title, now) ==
    [lesson_id |-> lesson_id,
     lesson_title |-> lesson_title,
     started_at |-> now,
     completed_at |-> None,
     completion_percentage |-> 0,
     quiz_score |-> Nothing,
     challenges_completed |-> << >>,
     time_spent_minutes |-> 0]

\* LessonProgress.is_completed
is_completed(p) == p.completion_percentage >= 100

\* `x in list`
InList(x, list) == \E i \in 1..Len(list) : list[i] = x

\* ProgressTracker.__init__
LedgerInit ==
    /\ lesson_progress = EmptyDict
    /\ total_points = 0
    /\ badges_earned = << >>

\* What start_lesson returns: the new record.  restarted is kept beside it
\* for the properties: whether the id had a record when the call was made.
Started(progress, restarted) ==
    [kind |-> "progress", value |-> progress, restarted |-> restarted]

\* start_lesson that leaves the record of a lesson already started as it is.
start_lesson_keep_record(lesson_id, lesson_title, now) ==
    /\ lesson_progress' =
           IF lesson_id \in DOMAIN lesson_progress
           THEN lesson_progress
           ELSE Put(lesson_progress, lesson_id,
                    LessonProgress(lesson_id, lesson_title, now))
    /\ ret' = Started(lesson_progress'[lesson_id],
                      lesson_id \in DOMAIN lesson_progress)
    /\ UNCHANGED <<total_points, badges_earned, registry, cells>>

\* start_lesson(lesson_id, lesson_title); now is the clock's reading.
start_lesson(lesson_id, lesson_title, now) ==
    /\ lesson_progress' = Put(lesson_progress, lesson_id,
                              LessonProgress(lesson_id, lesson_title, now))
    /\ ret' = Started(LessonProgress(lesson_id, lesson_title, now),
                      lesson_id \in DOMAIN lesson_progress)
    /\ UNCHANGED <<total_points, badges_earned, registry, cells>>

\* complete_lesson that starts a lesson that has no record, and completes it.
complete_lesson_or_start(lesson_id, completion_percentage, quiz_score, now) ==
    /\ LET lp == IF lesson_id \in DOMAIN lesson_progress
                 THEN lesson_progress
                 ELSE Put(lesson_progress, lesson_id,
                          LessonProgress(lesson_id, "", now))
       IN lesson_progress' =
              [lp EXCEPT
                  ![lesson_id].completion_percentage = completion_percentage,
                  ![lesson_id].completed_at = now,
                  ![lesson_id].quiz_score =
                      IF quiz_score # Nothing THEN quiz_score ELSE @]
    /\ ret' = Returned
    /\ UNCHANGED <<total_points, badges_earned, registry, cells>>

\* complete_lesson(lesson_id, completion_percentage, quiz_score); now is the
\* clock's reading.
complete_lesson(lesson_id, completion_percentage, quiz_score, now) ==
    /\ IF lesson_id \notin DOMAIN lesson_progress
       THEN /\ ret' = Raised("ValueError")
            /\ UNCHANGED lesson_progress
       ELSE /\ lesson_progress' =
                   [lesson_progress EXCEPT
                       ![lesson_id].completion_percentage = completion_percentage,
                       ![lesson_id].completed_at = now,
                       ![lesson_id].quiz_score =
                           IF quiz_score # Nothing THEN quiz_score ELSE @]
            /\ ret' = Returned
    /\ UNCHANGED <<total_points, badges_earned, registry, cells>>

\* update_time_spent(lesson_id, minutes)
update_time_spent(lesson_id, minutes) ==
    /\ IF lesson_id \in DOMAIN lesson_progress
       THEN /\ lesson_progress[lesson_id].time_spent_minutes + minutes <= MaxMinutes
            /\ lesson_progress' =
                   [lesson_progress EXCEPT
                       ![lesson_id].time_spent_minutes = @ + minutes]
       ELSE UNCHANGED lesson_progress
    /\ ret' = Returned
    /\ UNCHANGED <<total_points, badges_earned, registry, cells>>

\* add_challenge_completion(lesson_id, challenge_id)
add_challenge_completion(lesson_id, challenge_id) ==
    /\ IF /\ lesson_id \in DOMAIN lesson_progress
          /\ ~InList(challenge_id, lesson_progress[lesson_id].challenges_completed)
       THEN lesson_progress' =
                [lesson_progress EXCEPT
                    ![lesson_id].challenges_completed = Append(@, challenge_id)]
       ELSE UNCHANGED lesson_progress
    /\ ret' = Returned
    /\ UNCHANGED <<total_points, badges_earned, registry, cells>>

\* add_points with `=` for `+=`.
add_points_assign(points) ==
    /\ total_points + points <= MaxPoints
    /\ total_points' = points
    /\ ret' = Returned
    /\ UNCHANGED <<lesson_progress, badges_earned, registry, cells>>

\* add_points(points, reason)
add_points(points) ==
    /\ total_points + points <= MaxPoints
    /\ total_points' = total_points + points
    /\ ret' = Returned
    /\ UNCHANGED <<lesson_progress, badges_earned, registry, cells>>

\* award_badge without `if badge_name not in self.badges_earned` (the list is
\* kept to three badges here).
award_badge_again(badge_name) ==
    /\ Len(badges_earned) < 3
    /\ badges_earned' = Append(badges_earned, badge_name)
    /\ ret' = Returned
    /\ UNCHANGED <<lesson_progress, total_points, registry, cells>>

\* award_badge(badge_name)
award_badge(badge_name) ==
    /\ badges_earned' = IF ~InList(badge_name, badges_earned)
                        THEN Append(badges_earned, badge_name)
                        ELSE badges_earned
    /\ ret' = Returned
    /\ UNCHANGED <<lesson_progress, total_points, registry, cells>>

\* `if p.quiz_score`: the truth value of an Optional[int]; None and 0 are false.
Truthy(score) == score # Nothing /\ score[1] # 0

\* The ids whose record get_progress_summary puts in quiz_scores.
ScoredIds(lp) == {i \in DOMAIN lp : Truthy(lp[i].quiz_score)}

\* sum(p.quiz_score ...) over the records of ids.
RECURSIVE SumScores(_, _)
SumScores(lp, ids) ==
    IF ids = {} THEN 0
    ELSE LET i == CHOOSE x \in ids : TRUE
         IN lp[i].quiz_score[1] + SumScores(lp, ids \ {i})

\* sum(p.time_spent_minutes ...) over the records of ids.
RECURSIVE SumMinutes(_, _)
SumMinutes(lp, ids) ==
    IF ids = {} THEN 0
    ELSE LET i == CHOOSE x \in ids : TRUE
         IN lp[i].time_spent_minutes + SumMinutes(lp, ids \ {i})

\* sum(quiz_scores) / len(quiz_scores), kept as the fraction num/den; None
\* when quiz_scores is empty.
average_quiz_score(lp) ==
    LET scored == ScoredIds(lp)
    IN IF scored # {}
       THEN Some([num |-> SumScores(lp, scored), den |-> Cardinality(scored)])
       ELSE Nothing

\* get_progress_summary()
get_progress_summary ==
    /\ ret' = [kind |-> "summary",
               total_lessons_started |-> Cardinality(DOMAIN lesson_progress),
               total_lessons_completed |->
                   Cardinality({i \in DOMAIN lesson_progress :
                                   is_completed(lesson_progress[i])}),
               total_points |-> total_points,
               total_time_minutes |->
                   SumMinutes(lesson_progress, DOMAIN lesson_progress),
               average_quiz_score |-> average_quiz_score(lesson_progress),
               badges_earned |-> Len(badges_earned),
               badges |-> badges_earned]
    /\ UNCHANGED <<ledger, registry, cells>>

-----------------------------------------------------------------------------
(* NotebookGenerator                                                       *)
(* A str is the sequence of its pieces, the line break "\n" a piece of its *)
(* own; the empty str is << >>.  The emoji of the headings are left out.   *)

NL == "\n"

\* NotebookGenerator(title, description, author): set once, never assigned.
NotebookTitle == <<"Hello, Python!">>
NotebookAuthor == <<"Learning System">>

MarkdownTexts == {<<"Welcome">>, <<"one", NL, "two">>}
TagInputs == {Nothing, Some(<<"intro">>)}
CodeTexts == {<<"print(1)">>}
ExecutionCounts == {Nothing, Some(1)}
Questions == {<<"What is 1 + 1?">>}
OptionLists == {<< >>, << <<"1">>, <<"2">> >>}
CorrectIndexes == {-1, 0, 7}
Explanations == {<< >>, <<"Because.">>}
ChallengeTitles == {<<"Loops">>}
Descriptions == {<<"Try it.">>}
StarterCodes == {<< >>, <<"x = 1">>}
HintInputs == {Nothing, Some(<< <<"Think.">> >>)}
VisualTypes == {"ascii_art", "turtle"}
Facts == {<<"Python is named after Monty Python.">>}
\* datetime.now().strftime('%B %d, %Y')
Dates == {<<"January 01, 2024">>}

\* chr(65 + i), i from 0.
Letters == <<"A", "B", "C", "D">>

\* str(i) for a hint's number.
Digits == <<"1", "2", "3", "4">>

\* `x or []` for an Optional[List]
OrEmpty(x) == IF x = Nothing THEN << >> ELSE x[1]

\* source.split('\n'): the lines of a str, each the pieces between two breaks
\* joined.
RECURSIVE split(_, _)
split(source, acc) ==
    IF source = << >> THEN acc
    ELSE IF Head(source) = NL
         THEN split(Tail(source), Append(acc, ""))
         ELSE split(Tail(source),
                    [acc EXCEPT ![Len(acc)] = @ \o Head(source)])

\* _create_cell(cell_type, source, tags, execution_count)
create_cell(cell_type, source, tags, execution_count) ==
    LET cell == [cell_type |-> cell_type,
                 metadata |-> [tags |-> OrEmpty(tags)],
                 source |-> split(source, <<"">>)]
    IN IF cell_type = "code"
       THEN [cell_type |-> cell.cell_type, metadata |-> cell.metadata,
             source |-> cell.source,
             execution_count |-> execution_count, outputs |-> << >>]
       ELSE cell

\* self.cells after add_markdown_cell(content, tags), with a cell inserted at
\* the front instead.
with_markdown_cell_in_front(cs, content, tags) ==
    <<create_cell("markdown", content, Some(OrEmpty(tags)), Nothing)>> \o cs

\* self.cells after add_markdown_cell(content, tags) on cells cs.
with_markdown_cell(cs, content, tags) ==
    Append(cs, create_cell("markdown", content, Some(OrEmpty(tags)), Nothing))

\* self.cells after add_code_cell(code, tags, execution_count) on cells cs.
with_code_cell(cs, code, tags, execution_count) ==
    Append(cs, create_cell("code", code, Some(OrEmpty(tags)), execution_count))

\* The lines "- A) option\n" of add_quiz_cell's loop, from option number i.
RECURSIVE option_lines(_, _)
option_lines(options, i) ==
    IF i > Len(options) THEN << >>
    ELSE <<"- ", Letters[i], ") ">> \o options[i] \o <<NL>>
         \o option_lines(options, i + 1)

\* The lines "- Hint i: hint\n" of add_challenge_cell's loop.
RECURSIVE hint_lines(_, _)
hint_lines(hints, i) ==
    IF i > Len(hints) THEN << >>
    ELSE <<"- Hint ", Digits[i], ": ">> \o hints[i] \o <<NL>>
         \o hint_lines(hints, i + 1)

\* self.cells after add_quiz_cell, with the answer cell added always.
with_quiz_cells_always_answer(cs, question, options, correct_index, explanation) ==
    LET quiz_content == <<"## Quiz Question", NL, NL, "**">> \o question
                        \o <<"**", NL, NL>> \o option_lines(options, 1)
    IN with_markdown_cell(with_markdown_cell(cs, quiz_content, Some(<<"quiz">>)),
                          <<"**Answer Explanation:**", NL>> \o explanation,
                          Some(<<"quiz-answer">>))

\* self.cells after add_quiz_cell(question, options, correct_index,
\* explanation) on cells cs.
with_quiz_cells(cs, question, options, correct_index, explanation) ==
    LET quiz_content == <<"## Quiz Question", NL, NL, "**">> \o question
                        \o <<"**", NL, NL>> \o option_lines(options, 1)
        asked == with_markdown_cell(cs, quiz_content, Some(<<"quiz">>))
    IN IF explanation # << >>
       THEN with_markdown_cell(asked,
                               <<"**Answer Explanation:**", NL>> \o explanation,
                               Some(<<"quiz-answer">>))
       ELSE asked

\* NotebookGenerator.__init__
DocInit == cells = << >>

\* add_markdown_cell(content, tags)
add_markdown_cell(content, tags) ==
    /\ Len(cells) + 1 <= MaxCells
    /\ cells' = with_markdown_cell(cells, content, tags)
    /\ ret' = Returned
    /\ UNCHANGED <<registry, ledger>>

\* add_code_cell(code, tags, execution_count)
add_code_cell(code, tags, execution_count) ==
    /\ Len(cells) + 1 <= MaxCells
    /\ cells' = with_code_cell(cells, code, tags, execution_count)
    /\ ret' = Returned
    /\ UNCHANGED <<registry, ledger>>

\* add_quiz_cell(question, options, correct_index, explanation)
add_quiz_cell(question, options, correct_index, explanation) ==
    /\ cells' = with_quiz_cells(cells, question, options, correct_index, explanation)
    /\ Len(cells') <= MaxCells
    /\ ret' = Returned
    /\ UNCHANGED <<registry, ledger>>

\* add_challenge_cell(challenge_title, description, starter_code, hints)
add_challenge_cell(challenge_title, description, starter_code, hints) ==
    LET content == <<"## Challenge: ">> \o challenge_title \o <<NL, NL>>
                   \o description \o <<NL, NL>>
                   \o (IF OrEmpty(hints) # << >>
                       THEN <<NL, "**Hints:**", NL>> \o hint_lines(hints[1], 1)
                       ELSE << >>)
        described == with_markdown_cell(cells, content, Some(<<"challenge">>))
    IN /\ Len(cells) + 2 <= MaxCells
       /\ cells' = IF starter_code # << >>
                   THEN with_code_cell(described, starter_code,
                                       Some(<<"challenge-code">>), Nothing)
                   ELSE with_code_cell(described, <<"# Write your code here">>,
                                       Some(<<"challenge-code">>), Nothing)
       /\ ret' = Returned
       /\ UNCHANGED <<registry, ledger>>

\* The example of add_visual_exercise.
AsciiArtExample ==
    <<NL, "# Example ASCII Art - Modify this!", NL, "print(\"\"\"", NL,
      "    ~~~~ Fun Program ~~~~", NL, "    Learning is Fun!", NL,
      "\"\"\")", NL>>

\* add_visual_exercise(title, description, visual_type)
add_visual_exercise(title, description, visual_type) ==
    LET content == <<"## Visual Exercise: ">> \o title \o <<NL, NL>>
                   \o description \o <<NL, NL>>
        described == with_markdown_cell(cells, content, Some(<<"visual-exercise">>))
    IN /\ cells' = IF visual_type = "ascii_art"
                   THEN with_code_cell(described, AsciiArtExample,
                                       Some(<<"visual-code">>), Nothing)
                   ELSE described
       /\ Len(cells') <= MaxCells
       /\ ret' = Returned
       /\ UNCHANGED <<registry, ledger>>

\* add_fun_fact(fact)
add_fun_fact(fact) ==
    /\ Len(cells) + 1 <= MaxCells
    /\ cells' = with_markdown_cell(cells,
                    <<"### Did You Know?", NL, NL>> \o fact \o <<NL>>,
                    Some(<<"fun-fact">>))
    /\ ret' = Returned
    /\ UNCHANGED <<registry, ledger>>

\* set_title_and_intro(title, introduction); date is the formatted clock.
set_title_and_intro(title, introduction, date) ==
    LET meta == <<NL, "**Author:** ">> \o NotebookAuthor \o <<"  ", NL>>
                \o <<"**Created:** ">> \o date \o <<"  ", NL>>
                \o <<"**Topic:** ">> \o NotebookTitle \o <<NL>>
    IN /\ Len(cells) + 3 <= MaxCells
       /\ cells' = with_markdown_cell(
                       with_markdown_cell(
                           with_markdown_cell(cells, <<"# ">> \o title, Nothing),
                           meta, Nothing),
                       introduction, Nothing)
       /\ ret' = Returned
       /\ UNCHANGED <<registry, ledger>>

\* self.metadata, set by __init__.
NotebookMetadata ==
    [kernelspec |-> [display_name |-> "Python 3", language |-> "python",
                     name |-> "python3"],
     language_info |-> [name |-> "python", version |-> "3.9.0"]]

\* generate()
generate ==
    /\ ret' = [kind |-> "notebook",
               cells |-> cells,
               metadata |-> NotebookMetadata,
               nbformat |-> 4,
               nbformat_minor |-> 4]
    /\ UNCHANGED <<cells, registry, ledger>>

-----------------------------------------------------------------------------
(* The specifications: the state after construction, and every method.     *)

Init ==
    /\ RegistryInit
    /\ LedgerInit
    /\ DocInit
    /\ ret = [kind |-> "init"]

RegistryNext ==
    \/ \E m \in ModuleIds : create_module(m)
    \/ \E m \in ModuleIds, l \in Lessons : add_lesson(m, l)
    \/ \E s \in LessonIds : get_learning_path(s)
    \/ get_curriculum_overview

LedgerNext ==
    \/ \E i \in ProgressIds, t \in LessonTitles, now \in Times :
           start_lesson(i, t, now)
    \/ \E i \in ProgressIds, pc \in Percentages, q \in QuizScores, now \in Times :
           complete_lesson(i, pc, q, now)
    \/ \E i \in ProgressIds, m \in MinuteAmounts : update_time_spent(i, m)
    \/ \E i \in ProgressIds, c \in ChallengeIds : add_challenge_completion(i, c)
    \/ \E p \in PointAmounts : add_points(p)
    \/ \E b \in BadgeNames : award_badge(b)
    \/ get_progress_summary

DocNext ==
    \/ \E c \in MarkdownTexts, t \in TagInputs : add_markdown_cell(c, t)
    \/ \E c \in CodeTexts, t \in TagInputs, e \in ExecutionCounts :
           add_code_cell(c, t, e)
    \/ \E q \in Questions, o \in OptionLists, ci \in CorrectIndexes,
          e \in Explanations : add_quiz_cell(q, o, ci, e)
    \/ \E t \in ChallengeTitles, d \in Descriptions, s \in StarterCodes,
          h \in HintInputs : add_challenge_cell(t, d, s, h)
    \/ \E t \in ChallengeTitles, d \in Descriptions, v \in VisualTypes :
           add_visual_exercise(t, d, v)
    \/ \E f \in Facts : add_fun_fact(f)
    \/ \E t \in MarkdownTexts, i \in MarkdownTexts, d \in Dates :
           set_title_and_intro(t, i, d)
    \/ generate

RegistrySpec == Init /\ [][RegistryNext]_vars
LedgerSpec == Init /\ [][LedgerNext]_vars
DocSpec == Init /\ [][DocNext]_vars

-----------------------------------------------------------------------------
(* Properties of the CurriculumManager, under RegistrySpec.                *)

\* The ids of a list.
Range(list) == {list[i] : i \in 1..Len(list)}

\* The ids lesson u declares as prerequisites in the index L.
Prereqs(L, u) == IF u \in DOMAIN L THEN Range(L[u].prerequisites) ELSE {}

\* The ids reachable from the ids of S over one or more prerequisite edges.
RECURSIVE ReachedFrom(_, _, _)
ReachedFrom(L, S, seen) ==
    LET next == UNION {Prereqs(L, u) : u \in S} \ seen
    IN IF next = {} THEN seen ELSE ReachedFrom(L, next, seen \cup next)

Closure(L, u) == ReachedFrom(L, {u}, {})

\* A prerequisite cycle lies on the chain reachable from s.
CycleReachable(L, s) == \E u \in {s} \cup Closure(L, s) : u \in Closure(L, u)

\* The last call was get_learning_path on an indexed lesson and returned.
PathOfIndexed == ret.kind = "path" /\ ret.start \in DOMAIN lessons

\* C1, as claimed: the path get_learning_path returns for an indexed start id
\* ends with the start id, and every prerequisite of each lesson of the path
\* stands at a strictly smaller position than that lesson.
C1_PrerequisitesFirst ==
    PathOfIndexed =>
        /\ ret.path # << >> /\ ret.path[Len(ret.path)] = ret.start
        /\ \A i \in 1..Len(ret.path) : \A q \in Prereqs(lessons, ret.path[i]) :
               \E j \in 1..(i - 1) : ret.path[j] = q

\* C1, amended: the path ends with the start id and holds every indexed
\* prerequisite of each of its lessons; the prerequisite stands at a strictly
\* smaller position unless the lesson is itself a (transitive) prerequisite
\* of it, that is, unless the two lie on a prerequisite cycle.
C1_PrerequisitesFirstUnlessCyclic ==
    PathOfIndexed =>
        /\ ret.path # << >> /\ ret.path[Len(ret.path)] = ret.start
        /\ \A i \in 1..Len(ret.path) :
           \A q \in Prereqs(lessons, ret.path[i]) \cap DOMAIN lessons :
               /\ \E j \in 1..Len(ret.path) : ret.path[j] = q
               /\ ret.path[i] \notin Closure(lessons, q) =>
                      \E j \in 1..(i - 1) : ret.path[j] = q

\* C1's case: a returned path with a prerequisite edge on a cycle and one that
\* is on none.
C1_Witness ==
    /\ PathOfIndexed
    /\ \E i \in 1..Len(ret.path) :
       \E q \in Prereqs(lessons, ret.path[i]) \cap DOMAIN lessons :
           ret.path[i] \in Closure(lessons, q)
    /\ \E i \in 1..Len(ret.path) :
       \E q \in Prereqs(lessons, ret.path[i]) \cap DOMAIN lessons :
           ret.path[i] \notin Closure(lessons, q)

\* C2, as claimed: the returned path holds only ids of indexed lessons, so a
\* lesson none of whose prerequisites is indexed yields the path of itself
\* alone.
C2_OnlyIndexedIds ==
    PathOfIndexed =>
        /\ Range(ret.path) \subseteq DOMAIN lessons
        /\ Prereqs(lessons, ret.start) \cap DOMAIN lessons = {} =>
               ret.path = <<ret.start>>

\* C3, as claimed: on a chain with a cycle no path is ever returned.
C3_NoPathOnCycle ==
    ret.kind = "path" => ~CycleReachable(lessons, ret.start)

\* C3, amended: the visited set guards the traversal against cycles too: no
\* call ends in the recursion limit, and the path returned, on a chain with a
\* cycle as on any other, holds the start id and every indexed id reachable
\* from it.
C3_ReturnsOnCycle ==
    /\ ret # Raised("RecursionError")
    /\ ret.kind = "path" =>
           /\ ret.start \in Range(ret.path)
           /\ Closure(lessons, ret.start) \cap DOMAIN lessons
                  \subseteq Range(ret.path)

\* C3's case: a path returned on a chain with a cycle.
C3_Witness == ret.kind = "path" /\ CycleReachable(lessons, ret.start)

\* The diamond: A, B on A, C on A and B.
Diamond ==
    /\ DOMAIN lessons = {"A", "B", "C"}
    /\ lessons["A"].prerequisites = << >>
    /\ lessons["B"].prerequisites = <<"A">>
    /\ lessons["C"].prerequisites = <<"A", "B">>

\* C4: no id stands twice in a returned path, whatever the registry and the
\* start id; on the diamond the path of C is A, B, C.
C4_EachIdOnce ==
    ret.kind = "path" =>
        /\ \A i, j \in 1..Len(ret.path) : ret.path[i] = ret.path[j] => i = j
        /\ (Diamond /\ ret.start = "C") => ret.path = <<"A", "B", "C">>

\* C4's case: the path of C on the diamond.
C4_Witness == Diamond /\ ret.kind = "path" /\ ret.start = "C"

\* C5: add_lesson on a module id that is not registered raises, and leaves
\* modules (every lesson list with it), lessons and lesson_graph as they were.
C5_AddToMissingModule ==
    [][\A m \in ModuleIds, l \in Lessons :
           (m \notin DOMAIN modules /\ add_lesson(m, l)) =>
               /\ ret' = Raised("ValueError")
               /\ modules' = modules
               /\ lessons' = lessons
               /\ lesson_graph' = lesson_graph]_vars

\* C5's case: the call raised on a registry that holds a module and lessons.
C5_Witness ==
    /\ ret = Raised("ValueError")
    /\ DOMAIN modules # {} /\ DOMAIN modules # ModuleIds
    /\ DOMAIN lessons # {}

------------------------------------------------------------------------\* C13: every lesson of every module's list has its id among the keys of
\* lessons and among the keys of lesson_graph.
C13_MembersAreIndexed ==
    \A m \in DOMAIN modules : \A k \in 1..Len(modules[m].lessons) :
        /\ modules[m].lessons[k].id \in DOMAIN lessons
        /\ modules[m].lessons[k].id \in DOMAIN lesson_graph

\* C13's case: both modules hold lessons, one of them a lesson that declares
\* no prerequisite, and one module was made again after a lesson was added.
C13_Witness ==
    /\ DOMAIN modules = ModuleIds
    /\ \A m \in ModuleIds : modules[m].lessons # << >>
    /\ \E m \in ModuleIds : modules[m].lessons[1].prerequisites = << >>
    /\ \E i \in DOMAIN lessons : \A m \in ModuleIds :
           \A k \in 1..Len(modules[m].lessons) : modules[m].lessons[k].id # i

\* The places (module, position) where id i stands in a module's list.
PlacesOf(i) ==
    {<<m, k>> \in (DOMAIN modules) \X (1..(MaxMembers + 1)) :
        k <= Len(modules[m].lessons) /\ modules[m].lessons[k].id = i}

\* C14, as claimed: every id of lessons stands in the list of one module and
\* once there, so the overview's total_lessons is the sum of its modules'
\* lesson_count.
C14_OneModuleEach ==
    /\ \A i \in DOMAIN lessons : Cardinality(PlacesOf(i)) = 1
    /\ ret.kind = "overview" => ret.total_lessons = Members

\* C15: add_lesson on a registered module puts the lesson in lessons under its
\* id; lesson_graph keeps the entry the id has, and gets the lesson's declared
\* prerequisites under an id it does not yet have.
C15_FirstRegistrationWins ==
    [][\A m \in ModuleIds, l \in Lessons :
           (m \in DOMAIN modules /\ add_lesson(m, l)) =>
               /\ lessons' = Put(lessons, l.id, l)
               /\ lesson_graph' =
                      IF l.id \in DOMAIN lesson_graph
                      THEN lesson_graph
                      ELSE Put(lesson_graph, l.id, l.prerequisites)]_vars

\* C15's case: a lesson added again with other prerequisites, beside a lesson
\* added once.
C15_Witness ==
    /\ ret = Returned
    /\ \E i \in DOMAIN lessons : lesson_graph[i] # lessons[i].prerequisites
    /\ \E i \in DOMAIN lessons :
           lesson_graph[i] = lessons[i].prerequisites /\ lesson_graph[i] # << >>

\* lesson_graph read as an index: each id with the prerequisites stored for it.
GraphAsIndex(G) == [i \in DOMAIN G |-> Lesson(i, G[i])]

\* C17, as claimed: the path get_learning_path returns is the path that the
\* traversal gives over the prerequisites stored in lesson_graph.
C17_PathFollowsGraph ==
    ret.kind = "path" =>
        ret.path = learning_path(GraphAsIndex(lesson_graph), ret.start).path

-----
(* Properties of the ProgressTracker, under LedgerSpec.                    *)

\* C6: complete_lesson on an id with no record raises and leaves the records,
\* the points and the badges as they were; no record is made for the id.
C6_CompleteNeverStarted ==
    [][\A i \in ProgressIds, pc \in Percentages, q \in QuizScores, now \in Times :
           (i \notin DOMAIN lesson_progress /\ complete_lesson(i, pc, q, now)) =>
               /\ ret' = Raised("ValueError")
               /\ lesson_progress' = lesson_progress
               /\ total_points' = total_points
               /\ badges_earned' = badges_earned]_vars

\* C6's case: the call raised on a ledger that holds a record, points and a
\* badge.
C6_Witness ==
    /\ ret = Raised("ValueError")
    /\ DOMAIN lesson_progress # {}
    /\ total_points > 0
    /\ badges_earned # << >>

\* The ids whose record holds a score, 0 included.
RecordedIds(lp) == {i \in DOMAIN lp : lp[i].quiz_score # Nothing}

\* C7, as claimed: the summary's average_quiz_score is the mean of the scores
\* of all records whose score is not None, a score of 0 included, and None
\* exactly when no record has a score.
C7_AverageOfRecordedScores ==
    ret.kind = "summary" =>
        LET recorded == RecordedIds(lesson_progress)
            average == ret.average_quiz_score
        IN IF recorded = {}
           THEN average = Nothing
           ELSE /\ average # Nothing
                /\ average[1].num * Cardinality(recorded)
                       = SumScores(lesson_progress, recorded) * average[1].den

\* C10: start_lesson leaves for the id a record with 0%, no completion time,
\* no score, no challenge and no minute, whatever the id's record held; the
\* records of the other ids, the points and the badges are as they were.
C10_StartReplaces ==
    [][\A i \in ProgressIds, t \in LessonTitles, now \in Times :
           start_lesson(i, t, now) =>
               /\ DOMAIN lesson_progress' = DOMAIN lesson_progress \cup {i}
               /\ lesson_progress'[i].lesson_id = i
               /\ lesson_progress'[i].lesson_title = t
               /\ lesson_progress'[i].completion_percentage = 0
               /\ lesson_progress'[i].completed_at = None
               /\ lesson_progress'[i].quiz_score = Nothing
               /\ lesson_progress'[i].challenges_completed = << >>
               /\ lesson_progress'[i].time_spent_minutes = 0
               /\ \A j \in DOMAIN lesson_progress \ {i} :
                      lesson_progress'[j] = lesson_progress[j]
               /\ total_points' = total_points
               /\ badges_earned' = badges_earned]_vars

\* C10's case: a lesson was started again while another lesson is completed
\* and points and a badge are held.
C10_Witness ==
    /\ ret.kind = "progress" /\ ret.restarted
    /\ \E j \in DOMAIN lesson_progress \ {ret.value.lesson_id} :
           /\ is_completed(lesson_progress[j])
           /\ lesson_progress[j].challenges_completed # << >>
    /\ total_points > 0
    /\ badges_earned # << >>

------------------------------------------------------------------------\* No value stands twice in the list.
NoRepeat(list) == \A i, j \in 1..Len(list) : list[i] = list[j] => i = j

\* C11: no badge stands twice in badges_earned and no challenge twice in a
\* lesson's challenges_completed; award_badge of a badge that is held and
\* add_challenge_completion of a challenge that is recorded change nothing of
\* the ledger, so the summary counts a badge awarded twice once.
C11_SetSemantics ==
    /\ [](/\ NoRepeat(badges_earned)
          /\ \A i \in DOMAIN lesson_progress :
                 NoRepeat(lesson_progress[i].challenges_completed)
          /\ ret.kind = "summary" =>
                 ret.badges_earned = Cardinality(Range(badges_earned)))
    /\ [][/\ \A b \in BadgeNames :
                 (InList(b, badges_earned) /\ award_badge(b)) =>
                     UNCHANGED ledger
          /\ \A i \in ProgressIds, c \in ChallengeIds :
                 (/\ i \in DOMAIN lesson_progress
                  /\ InList(c, lesson_progress[i].challenges_completed)
                  /\ add_challenge_completion(i, c)) =>
                     UNCHANGED ledger]_vars

\* C11's case: the summary of a ledger that holds one badge and a lesson with
\* a challenge recorded.
C11_Witness ==
    /\ ret.kind = "summary"
    /\ ret.badges_earned = 1
    /\ \E i \in DOMAIN lesson_progress :
           lesson_progress[i].challenges_completed # << >>

\* C12: total_points starts at 0, add_points(p) adds p to it, and no other call
\* changes it: it is the sum of the amounts added (100 then 50 gives 150).
C12_PointsAreTheSumAdded ==
    /\ total_points = 0
    /\ [][/\ \A p \in PointAmounts :
                 add_points(p) => total_points' = total_points + p
          /\ total_points' # total_points =>
                 \E p \in PointAmounts : add_points(p)]_vars

\* C12's case: 150 points, held with records and badges.
C12_Witness ==
    /\ total_points = 150
    /\ DOMAIN lesson_progress # {}
    /\ badges_earned # << >>

\* C16, as claimed: the completion percentage of every record lies in 0..100.
C16_PercentageInRange ==
    \A i \in DOMAIN lesson_progress :
        lesson_progress[i].completion_percentage \in 0..100

-----
(* Properties of the NotebookGenerator, under DocSpec.                     *)

\* The tags of the cells, in order.
TagsOf(cs) == [i \in 1..Len(cs) |-> cs[i].metadata.tags]

\* C8: the cells before a call are a prefix of the cells after it, no cell of
\* them removed, moved or changed; generate changes no cell and lists the
\* cells in the order of the calls.
C8_AppendOnly ==
    [][/\ Len(cells) <= Len(cells')
       /\ SubSeq(cells', 1, Len(cells)) = cells
       /\ generate => (cells' = cells /\ ret'.cells = cells)]_vars

\* C8's case: generate on a notebook built by three calls or more, of
\* markdown and of code cells.
C8_Witness ==
    /\ ret.kind = "notebook"
    /\ ret.cells = cells
    /\ Len(cells) >= 3
    /\ \E i, j \in 1..Len(cells) :
           cells[i].cell_type = "markdown" /\ cells[j].cell_type = "code"

\* C9: add_quiz_cell adds one markdown cell tagged "quiz" when the explanation
\* is empty, and that cell followed by a markdown cell tagged "quiz-answer"
\* when it is not, for every list of options and every correct_index.
C9_QuizCells ==
    [][\A q \in Questions, o \in OptionLists, ci \in CorrectIndexes,
          e \in Explanations :
           add_quiz_cell(q, o, ci, e) =>
               LET n == Len(cells)
               IN /\ SubSeq(cells', 1, n) = cells
                  /\ Len(cells') = IF e = << >> THEN n + 1 ELSE n + 2
                  /\ cells'[n + 1].cell_type = "markdown"
                  /\ cells'[n + 1].metadata.tags = <<"quiz">>
                  /\ e # << >> =>
                         /\ cells'[n + 2].cell_type = "markdown"
                         /\ cells'[n + 2].metadata.tags = <<"quiz-answer">>]_vars

\* C9's case: a quiz with an explanation, then a quiz of two options without
\* one.
C9_Witness ==
    /\ TagsOf(cells) = << <<"quiz">>, <<"quiz-answer">>, <<"quiz">> >>
    /\ "- B) 2" \in Range(cells[3].source)

====
